---------------------------- MODULE Spec2Model ----------------------------
(***************************************************************************)
(* A model of zw1_pack.py: the DAT archive packer (pack) and unpacker      *)
(* (unpack).  Files are sequences of bytes (0..255), names are sequences   *)
(* of code points, integers on disk are 4 little-endian bytes.             *)
(***************************************************************************)
EXTENDS Integers, Sequences, FiniteSets, TLC

(***************************************************************************)
(* Bounds of the model.                                                    *)
(***************************************************************************)
MaxFiles == 3       \* candidate files in one pack run
MaxLen == 2         \* bytes in one source file
EnvBudget == 1      \* changes made to the source files while pack runs

(***************************************************************************)
(* Program constants.                                                      *)
(***************************************************************************)
MAGIC == 12345678   \* header magic
MaxTries == 100     \* output-name attempts
HeaderSize == 8
FtEntrySize == 12
FdEntrySize == 16
NameWidth == 8
ExtWidth == 4

NoFile == <<-1>>    \* a path at which no file exists
NoneVal == -1       \* Python's None in "pos"/"count" before layout
\* unpack's ft before a table is read
NoTable == [name |-> <<>>, count |-> 0, pos |-> 0, files |-> <<>>]

(***************************************************************************)
(* Byte and string primitives.                                             *)
(***************************************************************************)
RECURSIVE Zeros(_)
Zeros(n) == IF n <= 0 THEN <<>> ELSE <<0>> \o Zeros(n - 1)

\* bytes.ljust(width, b"\0")
ljust(s, width) == s \o Zeros(width - Len(s))

\* struct.pack("<I", v), for 0 <= v < 2^31 (every value of the model)
LE32(v) == << v % 256, (v \div 256) % 256, (v \div 65536) % 256,
              (v \div 16777216) % 256 >>

\* str.lower() on one code point: ASCII and Latin-1 capitals, and the
\* Kelvin sign U+212A whose lower case is the ASCII letter k
lower(c) ==
    IF c >= 65 /\ c <= 90 THEN c + 32
    ELSE IF c >= 192 /\ c <= 222 /\ c # 215 THEN c + 32
    ELSE IF c = 8490 THEN 107
    ELSE c

LowerStr(s) == [i \in DOMAIN s |-> lower(s[i])]

\* str.encode("ascii") succeeds
IsAscii(s) == \A i \in DOMAIN s : s[i] < 128

Dot == 46

\* os.path.splitext on a base name: split at the last dot unless only dots
\* precede it
splitext(p) ==
    LET dots == {i \in DOMAIN p : p[i] = Dot}
        last == IF dots = {} THEN 0
                ELSE CHOOSE i \in dots : \A j \in dots : j <= i
    IN  IF last > 0 /\ \E k \in 1..(last - 1) : p[k] # Dot
        THEN [name |-> SubSeq(p, 1, last - 1), ext |-> SubSeq(p, last, Len(p))]
        ELSE [name |-> p, ext |-> <<>>]

\* fp.read(n) at position pos (0-based) of a file: at most n bytes
ReadAt(f, pos, n) ==
    IF pos >= Len(f) THEN <<>>
    ELSE SubSeq(f, pos + 1, IF pos + n > Len(f) THEN Len(f) ELSE pos + n)

(***************************************************************************)
(* State.                                                                  *)
(***************************************************************************)
VARIABLES
    \* pack
    pc,            \* position in pack
    input_files,   \* base names of the candidate files, in discovery order
    src,           \* the source files on disk: [data, present]
    disk,          \* the files X.dat (0), X-1.dat (1), ... ; NoFile if absent
    existed0,      \* the output names taken when pack started
    try_count,     \* pack's try_count; the output name in use
    file_tables,   \* pack's file_tables
    fidx,          \* index of the candidate the scan loop is at
    gi, mi,        \* group and member the payload loop is at
    env_left,      \* changes the environment may still make to src
    disturbed,     \* a source file changed after discovery
    \* unpack
    upc,           \* position in unpack
    file_array,    \* the inputs: [found, dat, dir, data]
    args_test,     \* args.test: print the tables, write nothing
    ui,            \* index of the input the loop of line 186 is at
    upos,          \* unpack's pos: where the next header field is read
    ft_count,      \* unpack's ft_count
    x,             \* group descriptors read
    ft,            \* unpack's ft: the table being read
    ftpos,         \* unpack's ftpos: where the next member descriptor is read
    y,             \* member descriptors of ft read
    tables_u,      \* unpack's file_tables of the input being read
    ek,            \* the member the loops of lines 251-252 are at
    dirs,          \* the directories made
    outfs,         \* the files written: [dir, name, data]
    printed,       \* the inputs whose tables were printed
    outcome,       \* how the processing of each input ended, in order
    rlog           \* the reads made on the input being read

pvars == << pc, input_files, src, disk, existed0, try_count, file_tables,
            fidx, gi, mi, env_left, disturbed >>

\* the variables of the parse of one input
rvars == << upos, ft_count, x, ft, ftpos, y, tables_u >>

uvars == << upc, file_array, args_test, ui, rvars, ek, dirs, outfs,
            printed, outcome, rlog >>

vars == << pvars, uvars >>

(***************************************************************************)
(* pack: grouping and validation (lines 74-122).                           *)
(***************************************************************************)
\* Candidate without the check of line 99 for a dot in the name
CandidateDotted(base) ==
    LET sp == splitext(LowerStr(base))
    IN  [ name |-> sp.name,
          ext  |-> IF sp.ext = <<>> THEN <<>> ELSE Tail(sp.ext),
          ok   |-> /\ IsAscii(sp.name) /\ IsAscii(sp.ext)
                   /\ Len(sp.ext) = 4
                   /\ Len(sp.name) >= 1 /\ Len(sp.name) <= NameWidth ]

\* lines 79-101: the name and extension of a candidate, and whether the
\* sanity checks keep it
Candidate(base) ==
    LET sp == splitext(LowerStr(base))
    IN  [ name |-> sp.name,
          ext  |-> IF sp.ext = <<>> THEN <<>> ELSE Tail(sp.ext),
          ok   |-> /\ IsAscii(sp.name) /\ IsAscii(sp.ext)
                   /\ Len(sp.ext) = 4
                   /\ Len(sp.name) >= 1 /\ Len(sp.name) <= NameWidth
                   /\ \A i \in DOMAIN sp.name : sp.name[i] # Dot ]

\* lines 107-116: append to the table of this extension, or start one
AddFile(tables, ext, obj) ==
    IF \E t \in DOMAIN tables : tables[t].name = ext
    THEN LET t == CHOOSE k \in DOMAIN tables :
                      /\ tables[k].name = ext
                      /\ \A j \in 1..(k - 1) : tables[j].name # ext
         IN  [tables EXCEPT ![t].files = Append(@, obj)]
    ELSE Append(tables, [name |-> ext, count |-> NoneVal, pos |-> NoneVal,
                         files |-> <<obj>>])

(***************************************************************************)
(* pack: layout (lines 124-139).                                           *)
(***************************************************************************)
\* lines 129-133
RECURSIVE LayoutTables(_, _)
LayoutTables(fts, pos) ==
    IF fts = <<>> THEN <<>>
    ELSE LET fd_count == Len(Head(fts).files)
         IN  << [Head(fts) EXCEPT !.count = fd_count, !.pos = pos] >>
             \o LayoutTables(Tail(fts), pos + fd_count * FdEntrySize)

RECURSIVE EndOfTables(_, _)
EndOfTables(fts, pos) ==
    IF fts = <<>> THEN pos
    ELSE EndOfTables(Tail(fts), pos + Len(Head(fts).files) * FdEntrySize)

\* lines 137-139, one table
RECURSIVE LayoutFds(_, _)
LayoutFds(fds, pos) ==
    IF fds = <<>> THEN <<>>
    ELSE << [Head(fds) EXCEPT !.pos = pos] >>
         \o LayoutFds(Tail(fds), pos + Head(fds).size)

RECURSIVE SumSizes(_)
SumSizes(fds) == IF fds = <<>> THEN 0 ELSE Head(fds).size + SumSizes(Tail(fds))

\* lines 136-139
RECURSIVE LayoutFiles(_, _)
LayoutFiles(fts, pos) ==
    IF fts = <<>> THEN <<>>
    ELSE << [Head(fts) EXCEPT !.files = LayoutFds(@, pos)] >>
         \o LayoutFiles(Tail(fts), pos + SumSizes(Head(fts).files))

\* Layout with the member tables placed right after the header, as if the
\* group descriptors took no room
LayoutNoGroups(fts) ==
    LayoutFiles(LayoutTables(fts, HeaderSize), EndOfTables(fts, HeaderSize))

\* lines 126-139
Layout(fts) ==
    LET start == HeaderSize + Len(fts) * FtEntrySize
    IN  LayoutFiles(LayoutTables(fts, start), EndOfTables(fts, start))

(***************************************************************************)
(* pack: the header and the tables (lines 144-155).                        *)
(***************************************************************************)
RECURSIVE FtEntries(_)
FtEntries(fts) ==
    IF fts = <<>> THEN <<>>
    ELSE ljust(Head(fts).name, ExtWidth) \o LE32(Head(fts).pos)
         \o LE32(Head(fts).count) \o FtEntries(Tail(fts))

\* FdEntries with the offset written before the size
RECURSIVE FdEntriesSwapped(_)
FdEntriesSwapped(fds) ==
    IF fds = <<>> THEN <<>>
    ELSE ljust(Head(fds).name, NameWidth) \o LE32(Head(fds).pos)
         \o LE32(Head(fds).size) \o FdEntriesSwapped(Tail(fds))

RECURSIVE FdEntries(_)
FdEntries(fds) ==
    IF fds = <<>> THEN <<>>
    ELSE ljust(Head(fds).name, NameWidth) \o LE32(Head(fds).size)
         \o LE32(Head(fds).pos) \o FdEntries(Tail(fds))

RECURSIVE AllFdEntries(_)
AllFdEntries(fts) ==
    IF fts = <<>> THEN <<>>
    ELSE FdEntries(Head(fts).files) \o AllFdEntries(Tail(fts))

TableBytes(fts) ==
    LE32(MAGIC) \o LE32(Len(fts)) \o FtEntries(fts) \o AllFdEntries(fts)

(***************************************************************************)
(* unpack: the binary readers (lines 10-20).  A read of fewer bytes than   *)
(* struct.unpack needs raises struct.error: ok is FALSE.                   *)
(***************************************************************************)
read_uint32(f, pos) ==
    LET b == ReadAt(f, pos, 4)
    IN  IF Len(b) < 4
        THEN [ok |-> FALSE, val |-> 0, pos |-> pos]
        ELSE [ok |-> TRUE,
              val |-> b[1] + 256 * b[2] + 65536 * b[3] + 16777216 * b[4],
              pos |-> pos + 4]

\* str.strip("\0"): the nulls at both ends go
strip0(b) ==
    LET nz == {i \in DOMAIN b : b[i] # 0}
    IN  IF nz = {} THEN <<>>
        ELSE SubSeq(b, CHOOSE i \in nz : \A j \in nz : i <= j,
                       CHOOSE i \in nz : \A j \in nz : j <= i)

\* also fails when a byte is not ASCII (UnicodeDecodeError)
read_strn(f, pos, size) ==
    LET b == ReadAt(f, pos, size)
    IN  IF Len(b) < size \/ ~IsAscii(b)
        THEN [ok |-> FALSE, val |-> <<>>, pos |-> pos]
        ELSE [ok |-> TRUE, val |-> strip0(b), pos |-> pos + size]

\* the members of the tables in the order of the loops of lines 251-252
RECURSIVE Members(_)
Members(fts) ==
    IF fts = <<>> THEN <<>>
    ELSE [i \in DOMAIN Head(fts).files |->
            [ext |-> Head(fts).name, name |-> Head(fts).files[i].name,
             size |-> Head(fts).files[i].size, pos |-> Head(fts).files[i].pos]]
         \o Members(Tail(fts))

(***************************************************************************)
(* pack: the steps.                                                        *)
(***************************************************************************)
\* os.path.exists of the output name with suffix k (line 60)
Exists(k) == disk[k] # NoFile

\* Exhausted with one more attempt allowed
ExhaustedLate(n) == n > MaxTries

\* line 63
Exhausted(n) == n >= MaxTries

\* lines 58-67: one test of the while condition and, if the name is taken,
\* one pass of the loop body
TryName ==
    /\ pc = "resolve"
    /\ IF Exists(try_count)
       THEN /\ try_count' = try_count + 1
            /\ pc' = IF Exhausted(try_count + 1) THEN "no_name" ELSE "resolve"
       ELSE /\ pc' = "scan"
            /\ UNCHANGED try_count
    /\ UNCHANGED << input_files, src, disk, existed0, file_tables, fidx, gi,
                    mi, env_left, disturbed >>
    /\ UNCHANGED uvars

\* lines 74-122: one pass of the loop over input_files
ScanFile ==
    /\ pc = "scan"
    /\ fidx <= Len(input_files)
    /\ LET c == Candidate(input_files[fidx])
       IN  IF ~c.ok
           THEN UNCHANGED << pc, file_tables >>              \* continue
           ELSE IF ~src[fidx].present
           THEN /\ pc' = "aborted"                           \* getsize raises
                /\ UNCHANGED file_tables
           ELSE /\ file_tables' =
                       AddFile(file_tables, c.ext,
                               [name |-> c.name, size |-> Len(src[fidx].data),
                                pos |-> NoneVal, full_name |-> fidx])
                /\ UNCHANGED pc
    /\ fidx' = fidx + 1
    /\ UNCHANGED << input_files, src, disk, existed0, try_count, gi, mi,
                    env_left, disturbed >>
    /\ UNCHANGED uvars

\* lines 124-139
DoLayout ==
    /\ pc = "scan"
    /\ fidx > Len(input_files)
    /\ file_tables' = Layout(file_tables)
    /\ pc' = "open"
    /\ UNCHANGED << input_files, src, disk, existed0, try_count, fidx, gi, mi,
                    env_left, disturbed >>
    /\ UNCHANGED uvars

\* line 142: open(output_target, "wb")
OpenOutput ==
    /\ pc = "open"
    /\ disk' = [disk EXCEPT ![try_count] = <<>>]
    /\ pc' = "tables"
    /\ UNCHANGED << input_files, src, existed0, try_count, file_tables, fidx,
                    gi, mi, env_left, disturbed >>
    /\ UNCHANGED uvars

\* lines 143-155
WriteTables ==
    /\ pc = "tables"
    /\ disk' = [disk EXCEPT ![try_count] = @ \o TableBytes(file_tables)]
    /\ pc' = "payload"
    /\ gi' = 1
    /\ mi' = 1
    /\ UNCHANGED << input_files, src, existed0, try_count, file_tables, fidx,
                    env_left, disturbed >>
    /\ UNCHANGED uvars

\* lines 157-170: one member
CopyMember ==
    /\ pc = "payload"
    /\ gi <= Len(file_tables)
    /\ LET fd == file_tables[gi].files[mi]
           s  == src[fd.full_name]
       IN  IF ~s.present
           THEN /\ pc' = "aborted"                           \* open raises
                /\ UNCHANGED << disk, gi, mi >>
           ELSE /\ disk' = [disk EXCEPT
                              ![try_count] = @ \o ReadAt(s.data, 0, fd.size)]
                /\ IF mi < Len(file_tables[gi].files)
                   THEN mi' = mi + 1 /\ UNCHANGED gi
                   ELSE mi' = 1 /\ gi' = gi + 1
                /\ UNCHANGED pc
    /\ UNCHANGED << input_files, src, existed0, try_count, file_tables, fidx,
                    env_left, disturbed >>
    /\ UNCHANGED uvars

\* the end of the with block of line 142
CloseOutput ==
    /\ pc = "payload"
    /\ gi > Len(file_tables)
    /\ pc' = "done"
    /\ UNCHANGED << input_files, src, disk, existed0, try_count, file_tables,
                    fidx, gi, mi, env_left, disturbed >>
    /\ UNCHANGED uvars

(***************************************************************************)
(* The environment: another process shrinks or removes a source file      *)
(* while pack runs.                                                        *)
(***************************************************************************)
Running == pc \in {"scan", "open", "tables", "payload"}

Shrink ==
    /\ Running
    /\ env_left > 0
    /\ \E i \in DOMAIN src :
         /\ src[i].present
         /\ Len(src[i].data) > 0
         /\ \E n \in {0, Len(src[i].data) - 1} :
              src' = [src EXCEPT ![i].data = SubSeq(@, 1, n)]
    /\ env_left' = env_left - 1
    /\ disturbed' = TRUE
    /\ UNCHANGED << pc, input_files, disk, existed0, try_count, file_tables,
                    fidx, gi, mi >>
    /\ UNCHANGED uvars

Remove ==
    /\ Running
    /\ env_left > 0
    /\ \E i \in DOMAIN src :
         /\ src[i].present
         /\ src' = [src EXCEPT ![i].present = FALSE]
    /\ env_left' = env_left - 1
    /\ disturbed' = TRUE
    /\ UNCHANGED << pc, input_files, disk, existed0, try_count, file_tables,
                    fidx, gi, mi >>
    /\ UNCHANGED uvars

(***************************************************************************)
(* Inputs of pack.                                                         *)
(***************************************************************************)
SeqsUpTo(S, n) == UNION { [1..k -> S] : k \in 0..n }

\* the bytes of the source file at place i of the list, of length n
Content(i, n) == SubSeq([k \in 1..n |-> 16 * i + k], 1, n)

a_txt == << 97, 46, 116, 120, 116 >>
B_TXT == << 66, 46, 84, 88, 84 >>
c_bin == << 99, 46, 98, 105, 110 >>
ValidNames == { a_txt, B_TXT, c_bin }

\* base names that pass or fail each check of lines 82-101
NamePool ==
    { a_txt, B_TXT,
      << 97, 46, 101, 120 >>,                                   \* a.ex
      << 97, 46, 101, 120, 116, 101 >>,                         \* a.exte
      << 97, 98, 99 >>,                                         \* abc
      << 97, 46, 98, 46, 116, 120, 116 >>,                      \* a.b.txt
      << 97, 98, 99, 100, 101, 102, 103, 104, 46, 116, 120, 116 >>,
      << 97, 98, 99, 100, 101, 102, 103, 104, 105, 46, 116, 120, 116 >>,
      << 233, 46, 116, 120, 116 >>,                             \* e-acute.txt
      << 97, 46, 116, 233, 116 >>,                              \* a.t(e-acute)t
      << 8490, 46, 116, 120, 116 >>,                            \* Kelvin.txt
      << 97, 46, 46, 116, 120, 116 >> }                         \* a..txt

Files(names, lens) ==
    [input_files |-> names,
     src |-> [i \in DOMAIN names |->
                 [data |-> Content(i, lens[i]), present |-> TRUE]]]

NoneTaken == [k \in 0..(MaxTries + 1) |-> NoFile]
OldData == << 255 >>
Taken(S) == [k \in 0..(MaxTries + 1) |-> IF k \in S THEN OldData ELSE NoFile]

\* the sizes of the files of a list: all the same, or each one more than the
\* one before it, from 0 up to MaxLen and round again
Sizes ==
    { [i \in 1..MaxFiles |-> s] : s \in 0..MaxLen }
    \cup { [i \in 1..MaxFiles |-> (i + s) % (MaxLen + 1)] : s \in 0..MaxLen }

\* valid candidates in every order
InputsValid ==
    { [files |-> Files(n, l), disk |-> NoneTaken, env |-> 0] :
        n \in SeqsUpTo(ValidNames, MaxFiles), l \in Sizes }

\* candidates of every kind of name
InputsNames ==
    { [files |-> Files(n, [i \in 1..MaxFiles |-> 1]), disk |-> Taken({0}),
       env |-> 0] : n \in SeqsUpTo(NamePool, MaxFiles - 1) }

\* source files that change while pack runs
InputsChanging ==
    { [files |-> Files(n, l), disk |-> NoneTaken, env |-> EnvBudget] :
        n \in { << a_txt >>, << a_txt, c_bin >>, << c_bin, a_txt >> },
        l \in [1..2 -> 1..MaxLen] }

\* output names already taken: X.dat .. X-(n-1).dat, less one of them
InputsTaken ==
    { [files |-> Files(<< a_txt >>, << 1 >>),
       disk |-> Taken((0..(n - 1)) \ h), env |-> 0] :
        n \in 0..(MaxTries + 2), h \in { {}, {1}, {MaxTries - 1}, {MaxTries} } }

\* the example of the layout: txt [a: 10, b: 20], bin [c: 5]
InputsExample ==
    { [files |-> [input_files |-> << a_txt, << 98, 46, 116, 120, 116 >>, c_bin >>,
                  src |-> << [data |-> Content(1, 10), present |-> TRUE],
                             [data |-> Content(2, 20), present |-> TRUE],
                             [data |-> Content(3, 5), present |-> TRUE] >>],
       disk |-> NoneTaken, env |-> 0] }

PackInputs ==
    InputsValid \cup InputsNames \cup InputsChanging \cup InputsTaken
    \cup InputsExample

Init ==
    /\ \E in \in PackInputs :
         /\ input_files = in.files.input_files
         /\ src = in.files.src
         /\ disk = in.disk
         /\ existed0 = {k \in DOMAIN in.disk : in.disk[k] # NoFile}
         /\ env_left = in.env
    /\ pc = "resolve"
    /\ try_count = 0
    /\ file_tables = <<>>
    /\ fidx = 1
    /\ gi = 1
    /\ mi = 1
    /\ disturbed = FALSE
    /\ upc = "idle"
    /\ file_array = <<>>
    /\ args_test = FALSE
    /\ ui = 1
    /\ upos = 0
    /\ ft_count = 0
    /\ x = 0
    /\ ft = NoTable
    /\ ftpos = 0
    /\ y = 0
    /\ tables_u = <<>>
    /\ ek = 1
    /\ dirs = {}
    /\ outfs = {}
    /\ printed = {}
    /\ outcome = <<>>
    /\ rlog = <<>>

NextPack ==
    \/ TryName
    \/ ScanFile
    \/ DoLayout
    \/ OpenOutput
    \/ WriteTables
    \/ CopyMember
    \/ CloseOutput
    \/ Shrink
    \/ Remove

(***************************************************************************)
(* unpack: the steps.                                                      *)
(***************************************************************************)
\* NextInput with an exception ending the whole run
NextInputStop(how) ==
    /\ outcome' = Append(outcome, how)
    /\ ui' = ui + 1
    /\ upc' = IF how = "exception" THEN "finished" ELSE "next"

\* the end of one pass of the loop of line 186, with how it ended
NextInput(how) ==
    /\ outcome' = Append(outcome, how)
    /\ ui' = ui + 1
    /\ upc' = "next"

\* lines 188-203: the input is missing, or not named *.dat, or gets opened
UOpen ==
    /\ upc = "next"
    /\ ui <= Len(file_array)
    /\ IF ~file_array[ui].found THEN NextInput("notfound")
       ELSE IF ~file_array[ui].dat THEN NextInput("badname")
       ELSE upc' = "magic" /\ UNCHANGED << outcome, ui >>
    /\ rlog' = <<>>
    /\ UNCHANGED << file_array, args_test, rvars, ek, dirs, outfs, printed >>
    /\ UNCHANGED pvars

\* MagicOk with every number accepted
MagicAny(magic) == TRUE

\* line 211
MagicOk(magic) == magic = MAGIC

\* lines 207-214
UMagic ==
    /\ upc = "magic"
    /\ LET magic == read_uint32(file_array[ui].data, 0)
       IN  /\ rlog' = Append(rlog, << 0, 4 >>)
           /\ IF ~magic.ok THEN NextInput("exception") /\ UNCHANGED upos
              ELSE IF ~MagicOk(magic.val) THEN NextInput("badmagic") /\ UNCHANGED upos
              ELSE upc' = "count" /\ upos' = magic.pos /\ UNCHANGED << outcome, ui >>
    /\ UNCHANGED << file_array, args_test, ft_count, x, ft, ftpos, y, tables_u,
                    ek, dirs, outfs, printed >>
    /\ UNCHANGED pvars

\* lines 217-220
UCount ==
    /\ upc = "count"
    /\ LET count == read_uint32(file_array[ui].data, upos)
       IN  /\ rlog' = Append(rlog, << upos, 4 >>)
           /\ IF ~count.ok
              THEN NextInput("exception") /\ UNCHANGED << upos, ft_count, x, tables_u >>
              ELSE /\ upc' = "group"
                   /\ upos' = count.pos
                   /\ ft_count' = count.val
                   /\ x' = 0
                   /\ tables_u' = <<>>
                   /\ UNCHANGED << outcome, ui >>
    /\ UNCHANGED << file_array, args_test, ft, ftpos, y, ek, dirs, outfs, printed >>
    /\ UNCHANGED pvars

\* lines 222-224: the three fields of a group descriptor at pos, with the
\* reads made; ok is FALSE when one of them raises
ReadFt(f, pos) ==
    LET ftext == read_strn(f, pos, ExtWidth)
        ftp   == read_uint32(f, ftext.pos)
        ftnum == read_uint32(f, ftp.pos)
    IN  [ok    |-> ftext.ok /\ ftp.ok /\ ftnum.ok,
         ftext |-> ftext.val,
         ftpos |-> ftp.val,
         ftnum |-> ftnum.val,
         pos   |-> ftnum.pos,
         log   |-> IF ~ftext.ok THEN << << pos, ExtWidth >> >>
                   ELSE IF ~ftp.ok THEN << << pos, ExtWidth >>, << ftext.pos, 4 >> >>
                   ELSE << << pos, ExtWidth >>, << ftext.pos, 4 >>, << ftp.pos, 4 >> >>]

\* lines 230-232: the three fields of a member descriptor at pos
ReadFd(f, pos) ==
    LET fdnam == read_strn(f, pos, NameWidth)
        fdsiz == read_uint32(f, fdnam.pos)
        fdpos == read_uint32(f, fdsiz.pos)
    IN  [ok    |-> fdnam.ok /\ fdsiz.ok /\ fdpos.ok,
         fdnam |-> fdnam.val,
         fdsiz |-> fdsiz.val,
         fdpos |-> fdpos.val,
         pos   |-> fdpos.pos,
         log   |-> IF ~fdnam.ok THEN << << pos, NameWidth >> >>
                   ELSE IF ~fdsiz.ok THEN << << pos, NameWidth >>, << fdnam.pos, 4 >> >>
                   ELSE << << pos, NameWidth >>, << fdnam.pos, 4 >>, << fdsiz.pos, 4 >> >>]

\* lines 222-226: one group descriptor
UGroup ==
    /\ upc = "group"
    /\ x < ft_count
    /\ LET r == ReadFt(file_array[ui].data, upos)
       IN  /\ rlog' = rlog \o r.log
           /\ IF ~r.ok
              THEN /\ NextInput("exception")
                   /\ UNCHANGED << upos, ft, ftpos, y >>
              ELSE /\ upos' = r.pos
                   /\ ft' = [name |-> r.ftext, count |-> r.ftnum, pos |-> r.ftpos,
                             files |-> <<>>]
                   /\ ftpos' = r.ftpos
                   /\ y' = 0
                   /\ upc' = "member"
                   /\ UNCHANGED << outcome, ui >>
    /\ UNCHANGED << file_array, args_test, ft_count, x, tables_u, ek, dirs,
                    outfs, printed >>
    /\ UNCHANGED pvars

\* lines 229-236: one member descriptor
UMember ==
    /\ upc = "member"
    /\ y < ft.count
    /\ LET r == ReadFd(file_array[ui].data, ftpos)
       IN  /\ rlog' = rlog \o r.log
           /\ IF ~r.ok
              THEN /\ NextInput("exception")
                   /\ UNCHANGED << ft, ftpos, y >>
              ELSE /\ ft' = [ft EXCEPT !.files = Append(@, [name |-> r.fdnam,
                                                           size |-> r.fdsiz,
                                                           pos |-> r.fdpos])]
                   /\ ftpos' = r.pos
                   /\ y' = y + 1
                   /\ UNCHANGED << outcome, ui, upc >>
    /\ UNCHANGED << file_array, args_test, upos, ft_count, x, tables_u, ek,
                    dirs, outfs, printed >>
    /\ UNCHANGED pvars

\* line 238, and the next pass of the loop of line 221
UGroupEnd ==
    /\ upc = "member"
    /\ y >= ft.count
    /\ tables_u' = Append(tables_u, ft)
    /\ x' = x + 1
    /\ upc' = "group"
    /\ UNCHANGED << file_array, args_test, ui, upos, ft_count, ft, ftpos, y,
                    ek, dirs, outfs, printed, outcome, rlog >>
    /\ UNCHANGED pvars

\* the loop of line 221 has ended
Parsed == upc = "group" /\ x >= ft_count

\* lines 241-244
UTest ==
    /\ Parsed
    /\ args_test
    /\ printed' = printed \cup {ui}
    /\ NextInput("ok")
    /\ UNCHANGED << file_array, args_test, rvars, ek, dirs, outfs, rlog >>
    /\ UNCHANGED pvars

\* lines 247-249
UMkdir ==
    /\ Parsed
    /\ ~args_test
    /\ dirs' = dirs \cup {file_array[ui].dir}
    /\ upc' = "extract"
    /\ ek' = 1
    /\ UNCHANGED << file_array, args_test, ui, rvars, outfs, printed,
                    outcome, rlog >>
    /\ UNCHANGED pvars

\* line 254: fd["name"] + "." + ft["name"]
OutName(m) == m.name \o << Dot >> \o m.ext

\* line 258: open(out_path, "wb") raises when the path is the directory
\* itself ("dir/.")
OpenFails(name) == name = << Dot >>

\* Extracted without the seek of line 259
ExtractedInPlace(f, m) == ReadAt(f, 0, m.size)

\* line 260: the bytes written to the output file
Extracted(f, m) == ReadAt(f, m.pos, m.size)

\* lines 252-260: one member, and the except clause of line 261
UExtract ==
    /\ upc = "extract"
    /\ ek <= Len(Members(tables_u))
    /\ LET m == Members(tables_u)[ek]
           d == file_array[ui].dir
       IN  IF OpenFails(OutName(m))
           THEN /\ NextInput("exception")
                /\ UNCHANGED << ek, outfs, rlog >>
           ELSE /\ outfs' = {o \in outfs : ~(o.dir = d /\ o.name = OutName(m))}
                            \cup {[dir |-> d, name |-> OutName(m),
                                   data |-> Extracted(file_array[ui].data, m)]}
                /\ rlog' = Append(rlog, << m.pos, m.size >>)
                /\ ek' = ek + 1
                /\ UNCHANGED << outcome, ui, upc >>
    /\ UNCHANGED << file_array, args_test, rvars, dirs, printed >>
    /\ UNCHANGED pvars

\* the loops of lines 251-252 end
UDone ==
    /\ upc = "extract"
    /\ ek > Len(Members(tables_u))
    /\ NextInput("ok")
    /\ UNCHANGED << file_array, args_test, rvars, ek, dirs, outfs, printed,
                    rlog >>
    /\ UNCHANGED pvars

\* the loop of line 186 ends
UFinish ==
    /\ upc = "next"
    /\ ui > Len(file_array)
    /\ upc' = "finished"
    /\ UNCHANGED << file_array, args_test, ui, rvars, ek, dirs, outfs,
                    printed, outcome, rlog >>
    /\ UNCHANGED pvars

(***************************************************************************)
(* Inputs of unpack.                                                       *)
(***************************************************************************)
MaxInputs == 2      \* inputs in one unpack run
MaxGap == 1         \* unused bytes before each table and payload

\* the bytes of an archive of length len whose tables and payloads lie where
\* the pos fields of fts say; every other byte is 170
Image(fts, len) ==
    LET head == LE32(MAGIC) \o LE32(Len(fts)) \o FtEntries(fts)
    IN  SubSeq([q \in 1..len |->
          LET p == q - 1
          IN  IF p < Len(head) THEN head[p + 1]
              ELSE IF \E g \in DOMAIN fts :
                        p >= fts[g].pos /\ p < fts[g].pos + FdEntrySize * Len(fts[g].files)
              THEN LET g == CHOOSE g \in DOMAIN fts :
                        p >= fts[g].pos /\ p < fts[g].pos + FdEntrySize * Len(fts[g].files)
                   IN  FdEntries(fts[g].files)[p - fts[g].pos + 1]
              ELSE IF \E g \in DOMAIN fts : \E m \in DOMAIN fts[g].files :
                        p >= fts[g].files[m].pos
                        /\ p < fts[g].files[m].pos + fts[g].files[m].size
              THEN LET gm == CHOOSE gm \in {<<g, m>> : g \in DOMAIN fts, m \in 1..2} :
                        /\ gm[2] \in DOMAIN fts[gm[1]].files
                        /\ p >= fts[gm[1]].files[gm[2]].pos
                        /\ p < fts[gm[1]].files[gm[2]].pos + fts[gm[1]].files[gm[2]].size
                   IN  fts[gm[1]].files[gm[2]].data[p - fts[gm[1]].files[gm[2]].pos + 1]
              ELSE 170], 1, len)

Fd(name, data) == [name |-> name, size |-> Len(data), pos |-> NoneVal, data |-> data]
Ft(name, files) == [name |-> name, count |-> Len(files), pos |-> NoneVal, files |-> files]

\* txt [a: 2 bytes, b: 1 byte], bin [c: 2 bytes]
TablesA == << Ft(<<116, 120, 116>>, << Fd(<<97>>, <<17, 18>>), Fd(<<98>>, <<33>>) >>),
              Ft(<<98, 105, 110>>, << Fd(<<99>>, <<49, 50>>) >>) >>
\* other bytes under the same names
TablesB == << Ft(<<116, 120, 116>>, << Fd(<<97>>, <<65>>), Fd(<<98>>, <<66, 67>>) >>),
              Ft(<<98, 105, 110>>, << Fd(<<99>>, <<68>>) >>) >>
\* a member whose name and extension are both empty
TablesE == << Ft(<<>>, << Fd(<<120>>, <<1>>), Fd(<<>>, <<2>>) >>) >>

\* the length of the archive pack lays out for fts
TotalLen(fts) ==
    LET start == HeaderSize + Len(fts) * FtEntrySize
    IN  EndOfTables(fts, start) + SumSizes(Members(fts))

\* the archive pack writes for fts
Canonical(fts) == Image(Layout(fts), TotalLen(fts))

\* an archive of two groups with gap unused bytes before every table and
\* payload, the member tables swapped, the payloads in reverse order
Scattered(fts, swap, rev, gap) ==
    LET c1 == Len(fts[1].files)
        c2 == Len(fts[2].files)
        start == HeaderSize + 2 * FtEntrySize + gap
        t1 == IF swap THEN start + FdEntrySize * c2 + gap ELSE start
        t2 == IF swap THEN start ELSE start + FdEntrySize * c1 + gap
        ps == start + FdEntrySize * (c1 + c2) + gap
        ms == Members(fts)
        K  == Len(ms)
        \* payload k's place: after the payloads that physically precede it
        RECURSIVE Off(_, _)
        Off(k, j) ==
            IF j < 1 \/ j > K THEN ps + gap
            ELSE ms[j].size + gap + Off(k, IF rev THEN j + 1 ELSE j - 1)
        off(k) == Off(k, IF rev THEN k + 1 ELSE k - 1)
        placed == << [fts[1] EXCEPT !.pos = t1,
                        !.files = [m \in 1..c1 |-> [fts[1].files[m] EXCEPT !.pos = off(m)]]],
                     [fts[2] EXCEPT !.pos = t2,
                        !.files = [m \in 1..c2 |-> [fts[2].files[m] EXCEPT !.pos = off(c1 + m)]]] >>
    IN  Image(placed, ps + SumSizes(ms) + K * gap)

In(found, dat, dir, data) == [found |-> found, dat |-> dat, dir |-> dir, data |-> data]

BadMagic(f) == [f EXCEPT ![1] = 79]

\* inputs of every kind
InputPool ==
    { In(FALSE, TRUE, 1, <<>>),                                    \* missing
      In(TRUE, FALSE, 1, Canonical(TablesA)),                      \* not *.dat
      In(TRUE, TRUE, 3, BadMagic(Canonical(TablesA))),
      In(TRUE, TRUE, 3, SubSeq(Canonical(TablesA), 1, 30)),        \* cut table
      In(TRUE, TRUE, 4, SubSeq(Canonical(TablesA), 1, 84)),        \* cut payload
      In(TRUE, TRUE, 5, Canonical(TablesE)),
      In(TRUE, TRUE, 1, Canonical(TablesA)),
      In(TRUE, TRUE, 1, Canonical(TablesB)),                       \* same directory
      In(TRUE, TRUE, 2, Scattered(TablesB, TRUE, TRUE, 1)),
      In(TRUE, TRUE, 6, Canonical(<<>>)),                          \* no group
      In(TRUE, TRUE, 6, <<>>) }                                    \* empty file

UnpackInputs ==
    { [files |-> fa, test |-> t] : fa \in SeqsUpTo(InputPool, MaxInputs), t \in BOOLEAN }
    \cup
    \* an archive cut at every length, before a whole one
    { [files |-> << In(TRUE, TRUE, 1, SubSeq(Canonical(TablesA), 1, n)),
                    In(TRUE, TRUE, 2, Canonical(TablesB)) >>, test |-> FALSE] :
        n \in 0..TotalLen(TablesA) }
    \cup
    \* archives that are not laid out as pack lays them out
    { [files |-> << In(TRUE, TRUE, 1, Scattered(TablesA, swap, rev, gap)) >>, test |-> FALSE] :
        swap \in BOOLEAN, rev \in BOOLEAN, gap \in 0..MaxGap }

InitUnpack ==
    /\ \E in \in UnpackInputs :
         /\ file_array = in.files
         /\ args_test = in.test
    /\ upc = "next"
    /\ ui = 1
    /\ upos = 0
    /\ ft_count = 0
    /\ x = 0
    /\ ft = NoTable
    /\ ftpos = 0
    /\ y = 0
    /\ tables_u = <<>>
    /\ ek = 1
    /\ dirs = {}
    /\ outfs = {}
    /\ printed = {}
    /\ outcome = <<>>
    /\ rlog = <<>>
    /\ pc = "idle"
    /\ input_files = <<>>
    /\ src = <<>>
    /\ disk = NoneTaken
    /\ existed0 = {}
    /\ try_count = 0
    /\ file_tables = <<>>
    /\ fidx = 1
    /\ gi = 1
    /\ mi = 1
    /\ env_left = 0
    /\ disturbed = FALSE

\* lines 311-312: unpack is run on the archive pack has written
RunUnpack ==
    /\ pc = "done"
    /\ upc = "idle"
    /\ file_array' = << [found |-> TRUE, dat |-> TRUE, dir |-> 1,
                         data |-> disk[try_count]] >>
    /\ args_test' \in BOOLEAN
    /\ upc' = "next"
    /\ UNCHANGED << ui, rvars, ek, dirs, outfs, printed, outcome, rlog >>
    /\ UNCHANGED pvars

NextUnpack ==
    \/ UOpen
    \/ UMagic
    \/ UCount
    \/ UGroup
    \/ UMember
    \/ UGroupEnd
    \/ UTest
    \/ UMkdir
    \/ UExtract
    \/ UDone
    \/ UFinish

\* unpack alone, on inputs of every kind
SpecUnpack == InitUnpack /\ [][NextUnpack]_vars

\* pack, and unpack of what pack wrote
Next ==
    \/ NextPack
    \/ RunUnpack
    \/ NextUnpack

Spec == Init /\ [][Next]_vars

(***************************************************************************)
(* What the claims are stated with.                                        *)
(***************************************************************************)
N == Len(input_files)
Archive == disk[try_count]
Laid == pc \in {"open", "tables", "payload", "done"}

\* the index of the first candidate of V with the extension of candidate i
FirstOf(V, ext, i) == CHOOSE j \in V : ext[j] = ext[i] /\ \A k \in V : ext[k] = ext[i] => j <= k
\* the place of candidate i's group among the groups, and of i in its group
GroupRank(V, ext, i) == Cardinality({FirstOf(V, ext, j) : j \in {k \in V : FirstOf(V, ext, k) < FirstOf(V, ext, i)}}) + 1
MemberRank(V, ext, i) == Cardinality({j \in V : ext[j] = ext[i] /\ j < i}) + 1

\* tables holds the candidates of V, named name[i], grouped by ext[i] in
\* first-seen order, each group in candidate order
ShapeIs(tables, V, name, ext) ==
    /\ Len(tables) = Cardinality({FirstOf(V, ext, i) : i \in V})
    /\ \A g \in DOMAIN tables :
         Len(tables[g].files) = Cardinality({i \in V : GroupRank(V, ext, i) = g})
    /\ \A i \in V :
         LET g == GroupRank(V, ext, i)
             m == MemberRank(V, ext, i)
         IN  /\ g \in DOMAIN tables
             /\ tables[g].name = ext[i]
             /\ m \in DOMAIN tables[g].files
             /\ tables[g].files[m].name = name[i]

\* a valid candidate: ASCII, name of 1..8 characters without a dot, a dot,
\* an extension of 3 characters
ValidBase(b) ==
    /\ Len(b) >= 5 /\ Len(b) <= 12
    /\ b[Len(b) - 3] = 46
    /\ \A i \in DOMAIN b : b[i] < 128 /\ (i # Len(b) - 3 => b[i] # 46)
AllValid == \A i \in 1..N : ValidBase(input_files[i])
LowName == [i \in 1..N |-> LowerStr(SubSeq(input_files[i], 1, Len(input_files[i]) - 4))]
LowExt == [i \in 1..N |-> LowerStr(SubSeq(input_files[i], Len(input_files[i]) - 2, Len(input_files[i])))]

\* C1: after pack of valid candidates whose files did not change, unpack's
\* parse of the written archive gives the same groups in the same order,
\* each with the same members in the same order, with the lower-cased names,
\* the extensions and the sizes, and the size bytes at each member's offset
\* are the bytes of its source file, as are the bytes of the file unpack
\* writes for it (when no other candidate has its name).
RoundTrip ==
    (upc = "finished" /\ pc = "done" /\ AllValid /\ ~disturbed) =>
        LET p  == [status |-> outcome[1], tables |-> tables_u]
            nm == SubSeq(LowName, 1, N)
            ex == SubSeq(LowExt, 1, N)
        IN  /\ p.status = "ok"
            /\ ShapeIs(p.tables, 1..N, nm, ex)
            /\ \A g \in DOMAIN p.tables : p.tables[g].count = Len(p.tables[g].files)
            /\ \A i \in 1..N :
                 LET fd == p.tables[GroupRank(1..N, ex, i)].files[MemberRank(1..N, ex, i)]
                 IN  /\ fd.size = Len(src[i].data)
                     /\ ReadAt(Archive, fd.pos, fd.size) = src[i].data
            /\ ~args_test =>
                 \A i \in 1..N : \E o \in outfs :
                     /\ o.name = nm[i] \o << 46 >> \o ex[i]
                     /\ (\A j \in 1..N : j # i => LowerStr(input_files[j]) # LowerStr(input_files[i]))
                            => o.data = src[i].data

RoundTripWitness ==
    /\ upc = "finished" /\ pc = "done" /\ AllValid /\ ~disturbed
    /\ ~args_test
    /\ N = 3
    /\ Len(tables_u) = 2
    /\ Len(tables_u[1].files) = 2
    /\ Cardinality(outfs) = 3
    /\ input_files[1] = B_TXT
    /\ \A i \in 1..N : Len(src[i].data) = MaxLen

\* members in the groups before group g, and bytes of the members before
\* member m of group g
RECURSIVE MembersBefore(_, _)
MembersBefore(fts, g) == IF g <= 1 THEN 0 ELSE Len(fts[g - 1].files) + MembersBefore(fts, g - 1)
RECURSIVE BytesBefore(_, _, _)
BytesBefore(fts, g, m) ==
    IF m > 1 THEN fts[g].files[m - 1].size + BytesBefore(fts, g, m - 1)
    ELSE IF g > 1 THEN BytesBefore(fts, g - 1, Len(fts[g - 1].files) + 1)
    ELSE 0

\* C2: after layout, with G groups and M members, group g's table position
\* is 8 + 12 G + 16 (members of the groups before g) and a member's offset
\* is 8 + 12 G + 16 M + (sizes of the members before it); the files
\* txt [a: 10, b: 20], bin [c: 5] get the offsets 80, 90, 110.
LayoutCanonical ==
    Laid =>
        LET G == Len(file_tables)
            M == MembersBefore(file_tables, G + 1)
        IN  /\ \A g \in 1..G :
                 /\ file_tables[g].pos = 8 + 12 * G + 16 * MembersBefore(file_tables, g)
                 /\ file_tables[g].count = Len(file_tables[g].files)
                 /\ \A m \in DOMAIN file_tables[g].files :
                      file_tables[g].files[m].pos =
                          8 + 12 * G + 16 * M + BytesBefore(file_tables, g, m)
            /\ (\E in \in InputsExample : input_files = in.files.input_files /\ ~disturbed) =>
                 /\ file_tables[1].files[1].pos = 80
                 /\ file_tables[1].files[2].pos = 90
                 /\ file_tables[2].files[1].pos = 110

LayoutWitness ==
    /\ pc = "done"
    /\ \E in \in InputsExample : input_files = in.files.input_files
    /\ Len(src[2].data) = 20
    /\ file_tables[2].pos = 64
    /\ file_tables[2].files[1].pos = 110

\* the name and extension of a candidate as grouping sees them
SplitOf == [i \in 1..N |-> splitext(LowerStr(input_files[i]))]
\* the candidates the claim says are skipped, by name and dotted extension
Skipped(sp) ==
    \/ \E k \in DOMAIN sp.name : sp.name[k] >= 128
    \/ \E k \in DOMAIN sp.ext : sp.ext[k] >= 128
    \/ Len(sp.ext) # 3 + 1
    \/ Len(sp.name) = 0
    \/ Len(sp.name) > 8
    \/ \E k \in DOMAIN sp.name : sp.name[k] = 46

\* C3: while and after the candidates are scanned, the groups hold exactly
\* the candidates seen so far that are not skipped (non-ASCII, extension not
\* of 3 characters, name empty or over 8 characters, dot in the name), in
\* the order they were seen, and every member has a name of 1..8 characters
\* without a dot and its group an extension of 3 characters.
ScanKeepsValid ==
    (pc = "scan" \/ Laid) =>
        LET seen == IF pc = "scan" THEN fidx - 1 ELSE N
            sp   == SubSeq(SplitOf, 1, N)
            kept == {i \in 1..seen : ~Skipped(sp[i])}
            nm   == SubSeq([i \in 1..N |-> sp[i].name], 1, N)
            ex   == SubSeq([i \in 1..N |-> IF sp[i].ext = <<>> THEN <<>> ELSE Tail(sp[i].ext)], 1, N)
        IN  /\ ShapeIs(file_tables, kept, nm, ex)
            /\ \A i \in kept :
                 file_tables[GroupRank(kept, ex, i)].files[MemberRank(kept, ex, i)].full_name = i
            /\ \A g \in DOMAIN file_tables :
                 /\ Len(file_tables[g].name) = 3
                 /\ \A m \in DOMAIN file_tables[g].files :
                      LET fn == file_tables[g].files[m].name
                      IN  /\ Len(fn) >= 1 /\ Len(fn) <= 8
                          /\ \A k \in DOMAIN fn : fn[k] # 46

ScanWitness ==
    /\ pc = "open"
    /\ N = 2
    /\ Skipped(SplitOf[1]) /\ Len(SplitOf[1].name) > 8
    /\ ~Skipped(SplitOf[2])
    /\ Len(file_tables) = 1

\* C6: the archive goes to the first of X.dat, X-1.dat, ..., X-99.dat that
\* does not exist; if all 100 exist pack stops before it scans or writes;
\* no more than 100 names are tried and no file that existed is changed.
NameResolution ==
    /\ try_count <= 100
    /\ pc \notin {"resolve", "no_name"} =>
         /\ try_count <= 99
         /\ try_count \notin existed0
         /\ \A k \in 0..(try_count - 1) : k \in existed0
    /\ pc = "no_name" => \A k \in 0..99 : k \in existed0
    /\ (\A k \in 0..99 : k \in existed0) => pc \in {"resolve", "no_name"}
    /\ \A k \in DOMAIN disk :
         /\ k \in existed0 => disk[k] = OldData
         /\ (k \notin existed0 /\ disk[k] # NoFile) => (k = try_count /\ pc \notin {"resolve", "no_name"})

NameWitness ==
    /\ pc = "done"
    /\ try_count = 99
    /\ existed0 = 0..98
    /\ Archive # NoFile

\* C7 (as claimed): when pack has ended, the output path holds no file if
\* pack aborted, and otherwise every member's size bytes.
EncodeFailureClean ==
    /\ pc = "aborted" => Archive = NoFile
    /\ pc = "done" =>
         Len(Archive) = 8 + 12 * Len(file_tables)
                        + 16 * MembersBefore(file_tables, Len(file_tables) + 1)
                        + BytesBefore(file_tables, Len(file_tables) + 1, 1)

\* C9 (as claimed): when a member's payload is about to be written, the
\* write cursor of the output is at the member's recorded offset.
CursorAtOffset ==
    (pc = "payload" /\ gi <= Len(file_tables)) =>
        Len(Archive) = file_tables[gi].files[mi].pos

(***************************************************************************)
(* What the claims about unpack are stated with.                           *)
(***************************************************************************)
Input(i) == file_array[i]
Opened(i) == Input(i).found /\ Input(i).dat
\* the little-endian number in the 4 bytes of f from position p on
U32At(f, p) == f[p + 1] + 256 * f[p + 2] + 65536 * f[p + 3] + 16777216 * f[p + 4]
\* the first 4 bytes are 12345678 = 0x00BC614E
HasMagic(f) == Len(f) >= 4 /\ SubSeq(f, 1, 4) = << 78, 97, 188, 0 >>
\* the file written last at the path of member m of the input being read
Written(m) == {o \in outfs : o.dir = Input(ui).dir /\ o.name = m.name \o << 46 >> \o m.ext}

\* C4: when the first 4 bytes of an opened input are not the magic number,
\* the step that reads it ends the processing of that input as a failure
\* after the one read of the magic: no table is read or kept, nothing is
\* printed, no directory is made and no file is written.
MagicCheck ==
    [][ (upc = "magic" /\ ~HasMagic(Input(ui).data)) =>
          /\ upc' = "next"
          /\ ui' = ui + 1
          /\ outcome' = Append(outcome, IF Len(Input(ui).data) < 4
                                        THEN "exception" ELSE "badmagic")
          /\ rlog' = << << 0, 4 >> >>
          /\ tables_u' = tables_u
          /\ printed' = printed
          /\ dirs' = dirs
          /\ outfs' = outfs ]_vars

MagicWitness ==
    /\ upc = "finished"
    /\ Len(file_array) = 2
    /\ Opened(1) /\ ~HasMagic(Input(1).data) /\ Len(Input(1).data) > 80
    /\ outcome = << "badmagic", "ok" >>
    /\ dirs = {Input(2).dir}

\* archives whose contents are known, with their tables
Known ==
    { [data |-> Canonical(TablesA), tables |-> TablesA],
      [data |-> Canonical(TablesB), tables |-> TablesB],
      [data |-> Scattered(TablesB, TRUE, TRUE, 1), tables |-> TablesB] }
    \cup { [data |-> Scattered(TablesA, s, r, g), tables |-> TablesA] :
             s \in BOOLEAN, r \in BOOLEAN, g \in 0..MaxGap }
IsKnown(i) == Opened(i) /\ \E k \in Known : k.data = Input(i).data
TablesOf(i) == (CHOOSE k \in Known : k.data = Input(i).data).tables
\* every member of input i is a file of its directory, with the member's
\* bytes if no other input is extracted to the same directory
FullyExtracted(i) ==
    \A g \in DOMAIN TablesOf(i) : \A m \in DOMAIN TablesOf(i)[g].files :
        \E o \in outfs :
            /\ o.dir = Input(i).dir
            /\ o.name = TablesOf(i)[g].files[m].name \o << 46 >> \o TablesOf(i)[g].name
            /\ (\A j \in DOMAIN file_array : j # i => Input(j).dir # Input(i).dir)
                   => o.data = TablesOf(i)[g].files[m].data

BatchInv ==
    /\ upc = "next" => Len(outcome) = ui - 1
    /\ upc \in {"magic", "count", "group", "member", "extract"} => Len(outcome) = ui - 1 /\ ui <= Len(file_array)
    /\ \A i \in DOMAIN outcome :
         /\ ~Input(i).found => outcome[i] = "notfound"
         /\ (Input(i).found /\ ~Input(i).dat) => outcome[i] = "badname"
         /\ IsKnown(i) => outcome[i] = "ok"
         /\ (IsKnown(i) /\ ~args_test) => FullyExtracted(i)
    /\ upc = "finished" => Len(outcome) = Len(file_array)

\* a step leaves the input it is at only for the next one of the list, with
\* one more outcome recorded, and the run ends only past the last input
BatchStep ==
    /\ ui' = ui \/ (ui' = ui + 1 /\ ui <= Len(file_array) /\ upc' = "next"
                    /\ Len(outcome') = Len(outcome) + 1
                    /\ SubSeq(outcome', 1, Len(outcome)) = outcome)
    /\ (upc' = "finished" /\ upc # "finished") => ui > Len(file_array)
    /\ file_array' = file_array

\* C5: the inputs are processed once each, in list order; an input that is
\* missing, is not named *.dat, has a wrong magic number or raises an
\* exception ends only its own processing: the next step is at the next
\* input, the run ends only past the last input with one outcome for every
\* input, and every valid archive of the list is then fully extracted.
BatchContinues == [] BatchInv /\ [][BatchStep]_vars

BatchWitness ==
    /\ upc = "finished"
    /\ ~args_test
    /\ outcome = << "exception", "ok" >>
    /\ HasMagic(Input(1).data)
    /\ IsKnown(2) /\ FullyExtracted(2)
    /\ Cardinality(outfs) = 4

\* the reads of the member descriptors cnt - y .. cnt - 1 of a table at tp
RECURSIVE FdReads(_, _)
FdReads(tp, cnt) ==
    IF cnt = 0 THEN <<>>
    ELSE << << tp, 8 >>, << tp + 8, 4 >>, << tp + 12, 4 >> >> \o FdReads(tp + 16, cnt - 1)
\* the reads of the group descriptors g .. G of f, each followed by the
\* reads of the member table its stored position and count name
RECURSIVE FtReads(_, _, _)
FtReads(f, g, G) ==
    IF g > G THEN <<>>
    ELSE LET at == 8 + 12 * (g - 1)
         IN  << << at, 4 >>, << at + 4, 4 >>, << at + 8, 4 >> >>
             \o FdReads(U32At(f, at + 4), U32At(f, at + 8))
             \o FtReads(f, g + 1, G)
\* the stored << offset, size >> of every member of f, in table order
RECURSIVE FdStored(_, _, _)
FdStored(f, tp, cnt) ==
    IF cnt = 0 THEN <<>>
    ELSE << << U32At(f, tp + 12), U32At(f, tp + 8) >> >> \o FdStored(f, tp + 16, cnt - 1)
RECURSIVE Stored(_, _, _)
Stored(f, g, G) ==
    IF g > G THEN <<>>
    ELSE FdStored(f, U32At(f, 8 + 12 * (g - 1) + 4), U32At(f, 8 + 12 * (g - 1) + 8))
         \o Stored(f, g + 1, G)

\* C8: for an archive with the magic number, laid out in any way, unpack
\* reads the count member descriptors of each group from the group's stored
\* table position on, and reads each member's payload at the member's
\* stored offset: the file it writes holds the bytes found there.
StoredPositions ==
    (Parsed \/ upc = "extract") =>
        LET f  == Input(ui).data
            G  == U32At(f, 4)
            st == Stored(f, 1, G)
            n  == IF upc = "extract" THEN ek - 1 ELSE 0
        IN  /\ rlog = << << 0, 4 >>, << 4, 4 >> >> \o FtReads(f, 1, G) \o SubSeq(st, 1, n)
            /\ Len(Members(tables_u)) = Len(st)
            /\ n >= 1 =>
                 \A o \in Written(Members(tables_u)[n]) :
                     \A k \in DOMAIN o.data : o.data[k] = f[st[n][1] + k]

StoredWitness ==
    /\ upc = "extract"
    /\ ek = 4
    /\ Input(ui).data = Scattered(TablesA, TRUE, TRUE, 1)
    /\ \E o \in outfs : o.name = << 99, 46, 98, 105, 110 >> /\ o.data = << 49, 50 >>
    /\ \E o \in outfs : o.name = << 97, 46, 116, 120, 116 >> /\ o.data = << 17, 18 >>

\* an archive that ends before its last byte
ArchiveA == Canonical(TablesA)
IsCut(f) == Len(f) < Len(ArchiveA) /\ f = SubSeq(ArchiveA, 1, Len(f))

\* C10 (as claimed): an archive in which some read comes back short ends
\* failed, and every file unpack writes holds exactly the size bytes of its
\* member descriptor.
ShortReadFails ==
    /\ \A i \in DOMAIN outcome :
         (Opened(i) /\ IsCut(Input(i).data)) => outcome[i] \in {"exception", "badmagic"}
    /\ (upc = "extract" /\ ek > 1) =>
         \A o \in Written(Members(tables_u)[ek - 1]) :
             Len(o.data) = Members(tables_u)[ek - 1].size

=============================================================================
